---------------------------- MODULE Spec2Model ----------------------------
(***************************************************************************)
(* LOCBot: a counter of non-empty source lines (count_loc.py) with a       *)
(* command-line front end and a Telegram front end (tg_loc_bot.py).        *)
(*                                                                         *)
(* Text is modelled as a sequence of one-character strings, so that the    *)
(* string conversions of the program (split, strip, lower, suffix,         *)
(* removesuffix, splitlines) are computed and not assumed.                 *)
(***************************************************************************)
EXTENDS Integers, Sequences, FiniteSets, TLC

VARIABLES
    \* ---- the scan (count_loc.py: count_project) ----
    root,         \* path.parts of the scan root, a sequence of names
    tree,         \* the regular files under the root: relative parts -> [text, readable]
    scanPc,       \* "args" | "ready" | "counted"
    extensions,   \* the extension filter, a set of texts
    ignore_dirs,  \* the ignored directory names, a set of texts
    walked,       \* the relative paths iter_source_files yielded
    per_file,     \* the result list of <<loc, rel>> pairs
    total,        \* the result total
    \* ---- URL parsing (count_loc.py: parse_github_repo_url) ----
    url,          \* the URL text handed to parse_github_repo_url
    parsed,       \* what the call gave: nothing yet, a value or a ValueError
    \* ---- fetch and count (count_loc.py: main; tg_loc_bot.py: _count_repo_from_url) ----
    ops,          \* each operation: its front end, target, position and outputs
    scratch,      \* the scratch directories that exist: name -> operation that made it
    \* ---- the report (tg_loc_bot.py: _render_result; count_loc.py: main) ----
    shown,        \* the (per_file, total) pair handed to the renderer
    topN,         \* the requested number of files to list
    report,       \* the rendered report
    \* ---- the chat front end (tg_loc_bot.py) ----
    user_data,    \* context.user_data of each user: "top" and "last_url"
    running,      \* the handler that awaits its count, if any
    handled,      \* the update handled last: the replies to its chat, its exception
    escaped,      \* an exception has left a handler
    lastCounted   \* history: the URL of each user's most recent successful count

scanVars == <<root, tree, scanPc, extensions, ignore_dirs, walked, per_file, total>>
urlVars == <<url, parsed>>
opsVars == <<ops, scratch>>
renderVars == <<shown, topN, report>>
botVars == <<user_data, running, handled, escaped, lastCounted>>

\* what each part of the model leaves alone
notScan == <<urlVars, opsVars, renderVars, botVars>>
notUrl == <<scanVars, opsVars, renderVars, botVars>>
notOps == <<scanVars, urlVars, renderVars, botVars>>
notRender == <<scanVars, urlVars, opsVars, botVars>>
notBot == <<scanVars, urlVars, opsVars, renderVars>>
vars == <<scanVars, urlVars, opsVars, renderVars, botVars>>

\* the parts of the model a specification does not exercise stay as they are
ScanIdle ==
    /\ root = <<>> /\ tree = <<>> /\ scanPc = "off" /\ extensions = {}
    /\ ignore_dirs = {} /\ walked = {} /\ per_file = <<>> /\ total = 0

UrlIdle == url = <<>> /\ parsed = [error |-> "off"]

OpsIdle == ops = <<>> /\ scratch = <<>>

RenderIdle == shown = <<>> /\ topN = 0 /\ report = [by |-> "off"]

BotIdle ==
    /\ user_data = <<>> /\ running = <<>> /\ handled = <<>>
    /\ escaped = FALSE /\ lastCounted = <<>>

-----------------------------------------------------------------------------
(* Bounds of the model. *)

MaxFiles == 3
MaxSegments == 5
NumOps == 2
MaxListed == 3
MaxTop == 3
NumUsers == 2

-----------------------------------------------------------------------------
(* Text helpers: Python's str methods on sequences of characters. *)

UpperChars == <<"A","B","C","D","E","F","G","H","I","J","K","L","M",
                "N","O","P","Q","R","S","T","U","V","W","X","Y","Z">>

LowerChars == <<"a","b","c","d","e","f","g","h","i","j","k","l","m",
                "n","o","p","q","r","s","t","u","v","w","x","y","z">>

\* str.lower on one character
LowerChar(c) ==
    IF \E i \in DOMAIN UpperChars : UpperChars[i] = c
    THEN LowerChars[CHOOSE i \in DOMAIN UpperChars : UpperChars[i] = c]
    ELSE c

\* str.lower
Lower(s) == [i \in DOMAIN s |-> LowerChar(s[i])]

\* the characters str.strip removes and str.isspace accepts
IsSpace(c) == c \in {" ", "\t", "\n", "\r"}

RECURSIVE LStrip(_)
LStrip(s) == IF s # <<>> /\ IsSpace(Head(s)) THEN LStrip(Tail(s)) ELSE s

RECURSIVE RStrip(_)
RStrip(s) ==
    IF s # <<>> /\ IsSpace(s[Len(s)]) THEN RStrip(SubSeq(s, 1, Len(s) - 1)) ELSE s

\* str.strip()
Strip(s) == RStrip(LStrip(s))

\* str.split(sep) for a one-character separator: always at least one piece
RECURSIVE Split(_, _)
Split(s, sep) ==
    IF \E i \in DOMAIN s : s[i] = sep
    THEN LET i == CHOOSE k \in DOMAIN s : s[k] = sep /\ \A j \in 1..(k - 1) : s[j] # sep
         IN  <<SubSeq(s, 1, i - 1)>> \o Split(SubSeq(s, i + 1, Len(s)), sep)
    ELSE <<s>>

\* str.startswith
StartsWith(s, p) == Len(s) >= Len(p) /\ SubSeq(s, 1, Len(p)) = p

\* str.endswith
EndsWith(s, p) == Len(s) >= Len(p) /\ SubSeq(s, Len(s) - Len(p) + 1, Len(s)) = p

\* str.removesuffix
RemoveSuffix(s, p) ==
    IF p # <<>> /\ EndsWith(s, p) THEN SubSeq(s, 1, Len(s) - Len(p)) ELSE s

\* str.splitlines: lines end at "\n", "\r" or "\r\n"; no empty last line
RECURSIVE SplitLines(_)
SplitLines(text) ==
    IF text = <<>> THEN <<>>
    ELSE IF \E i \in DOMAIN text : text[i] \in {"\n", "\r"}
    THEN LET i == CHOOSE k \in DOMAIN text :
                      /\ text[k] \in {"\n", "\r"}
                      /\ \A j \in 1..(k - 1) : text[j] \notin {"\n", "\r"}
             skip == IF text[i] = "\r" /\ i < Len(text) /\ text[i + 1] = "\n"
                     THEN 2 ELSE 1
         IN  <<SubSeq(text, 1, i - 1)>>
                 \o SplitLines(SubSeq(text, i + skip, Len(text)))
    ELSE <<text>>

\* PurePath.suffix: from the last dot of the name, unless that dot is the
\* first or the last character
Suffix(name) ==
    IF \E i \in DOMAIN name : name[i] = "."
    THEN LET i == CHOOSE k \in DOMAIN name :
                      name[k] = "." /\ \A j \in (k + 1)..Len(name) : name[j] # "."
         IN  IF 1 < i /\ i < Len(name) THEN SubSeq(name, i, Len(name)) ELSE <<>>
    ELSE <<>>

\* the elements of a sequence
Range(s) == {s[i] : i \in DOMAIN s}

-----------------------------------------------------------------------------
(* count_loc.py: configuration. *)

DEFAULT_EXTENSIONS ==
    { <<".","p","y">>, <<".","j","s">>, <<".","t","s">>, <<".","j","s","x">>,
      <<".","t","s","x">>, <<".","j","a","v","a">>, <<".","k","t">>,
      <<".","g","o">>, <<".","r","s">>, <<".","c","p","p">>, <<".","c">>,
      <<".","h">>, <<".","h","p","p">>, <<".","c","s">>, <<".","p","h","p">>,
      <<".","r","b">>, <<".","s","w","i","f","t">>, <<".","s","c","a","l","a">>,
      <<".","s","h">>, <<".","h","t","m","l">>, <<".","c","s","s">>,
      <<".","s","c","s","s">>, <<".","s","q","l">> }

DEFAULT_IGNORE_DIRS ==
    { <<".","g","i","t">>, <<"n","o","d","e","_","m","o","d","u","l","e","s">>,
      <<".","v","e","n","v">>, <<"v","e","n","v">>,
      <<"_","_","p","y","c","a","c","h","e","_","_">>, <<"d","i","s","t">>,
      <<"b","u","i","l","d">>, <<".","i","d","e","a">>,
      <<".","v","s","c","o","d","e">> }

\* parse_csv_set: split on commas, strip, drop the empty items
parse_csv_set(value) ==
    {Strip(item) : item \in {it \in Range(Split(value, ",")) : Strip(it) # <<>>}}

\* normalize_extensions: prefix a dot when there is none
normalize_extensions(exts) ==
    {IF StartsWith(ext, <<".">>) THEN ext ELSE <<".">> \o ext : ext \in exts}


-----------------------------------------------------------------------------
(* The file systems and command lines the scan is checked on. *)

nHome == <<"h","o","m","e">>
nProj == <<"p","r","o","j">>
nTmp == <<"t","m","p">>
nScratch == <<"l","o","c","_","c","o","u","n","t","e","r","_","x">>
nExtracted == <<"e","x","t","r","a","c","t","e","d">>
nRepo == <<"r","e","p","o">>
nBuild == <<"b","u","i","l","d">>
nSrc == <<"s","r","c">>

\* path.parts of the roots: two local ones and two inside a scratch directory,
\* the second reached through the URL subpath "build"
Roots ==
    { << <<"/">>, nHome, nProj >>,
      << <<"/">>, nHome, nBuild, nProj >>,
      << <<"/">>, nTmp, nScratch, nExtracted, nRepo >>,
      << <<"/">>, nTmp, nScratch, nExtracted, nRepo, nBuild >> }

IsScratchRoot(r) == Len(r) >= 2 /\ r[2] = nTmp

RelPaths ==
    { << <<"a",".","p","y">> >>,
      << nSrc, <<"b",".","P","Y">> >>,
      << nBuild, <<"c",".","p","y">> >>,
      << nSrc, <<"d",".","m","d">> >> }

\* a file's content, or a file whose read fails
FileStates ==
    { [readable |-> TRUE,  text |-> <<"x","\n","\n"," ","x","\r","\n">>],
      [readable |-> TRUE,  text |-> <<"x">>],
      [readable |-> TRUE,  text |-> <<" ","\n","\t","\n">>],
      [readable |-> FALSE, text |-> <<"x","\n">>] }

Trees ==
    UNION { [P -> FileStates] :
              P \in {Q \in SUBSET RelPaths : Cardinality(Q) <= MaxFiles} }

\* values of --ext
ExtArgs ==
    { <<"p","y">>,
      <<"P","Y",","," ",".","m","d">>,
      <<>>,
      <<" ",".","p","y",",",",","j","s"," ">> }

\* values of --ignore-dirs
IgnoreArgs ==
    { nBuild, <<>>, <<"s","r","c",","," ","b","u","i","l","d">> }

-----------------------------------------------------------------------------
(* count_loc.py: the walk and the count. *)

\* Path.rglob("*"): every directory and file below the root, as relative parts
rglob(t) ==
    UNION { {SubSeq(rel, 1, n) : n \in 1..Len(rel)} : rel \in DOMAIN t }

\* Path.is_file
is_file(t, rel) == rel \in DOMAIN t

\* the test of line 55, on path.parts of the path rglob returned
IgnoredParts(r, rel, ignore) == \E part \in Range(r \o rel) : part \in ignore

\* the test of line 57
ExtensionRejects(rel, exts) ==
    exts # {} /\ Lower(Suffix(rel[Len(rel)])) \notin exts

\* iter_source_files: the relative parts of the paths it yields
iter_source_files(r, t, exts, ignore) ==
    { rel \in rglob(t) :
        /\ is_file(t, rel)
        /\ ~IgnoredParts(r, rel, ignore)
        /\ ~ExtensionRejects(rel, exts) }

\* line 67: the lines with a character that is not white space
NonEmptyLines(text) ==
    Cardinality({i \in DOMAIN SplitLines(text) : Strip(SplitLines(text)[i]) # <<>>})

\* a mutant: every line counts, blank or not
CountAllLines(f) ==
    IF ~f.readable THEN 0 ELSE Len(SplitLines(f.text))

\* count_non_empty_lines: 0 when read_text raises OSError
count_non_empty_lines(f) ==
    IF ~f.readable THEN 0 ELSE NonEmptyLines(f.text)

\* a mutant: sorted without reverse=True
RECURSIVE SortAscending(_)
SortAscending(s) ==
    IF s = <<>> THEN <<>>
    ELSE LET rest == SortAscending(Tail(s))
             k == Cardinality({i \in DOMAIN rest : rest[i][1] < Head(s)[1]})
         IN  SubSeq(rest, 1, k) \o <<Head(s)>> \o SubSeq(rest, k + 1, Len(rest))

\* list.sort(reverse=True, key=loc): stable, equal counts keep their order
RECURSIVE SortByLoc(_)
SortByLoc(s) ==
    IF s = <<>> THEN <<>>
    ELSE LET rest == SortByLoc(Tail(s))
             k == Cardinality({i \in DOMAIN rest : rest[i][1] > Head(s)[1]})
         IN  SubSeq(rest, 1, k) \o <<Head(s)>> \o SubSeq(rest, k + 1, Len(rest))

\* the loop of count_project over the files in the order the walk gives them
RECURSIVE CountLoop(_, _)
CountLoop(t, order) ==
    IF order = <<>> THEN [per_file |-> <<>>, total |-> 0]
    ELSE LET n == Len(order)
             before == CountLoop(t, SubSeq(order, 1, n - 1))
             loc == count_non_empty_lines(t[order[n]])
         IN  IF loc = 0 THEN before
             ELSE [per_file |-> Append(before.per_file, <<loc, order[n]>>),
                   total |-> before.total + loc]

\* the orders in which a walk may yield a set of paths
Orders(S) ==
    { o \in [1..Cardinality(S) -> S] : \A i, j \in DOMAIN o : i # j => o[i] # o[j] }

\* main, lines 189-190: the filters of the command line
CliArgs(extArg, ignoreArg) ==
    /\ scanPc = "args"
    /\ extensions' = IF extArg # <<>>
                     THEN normalize_extensions(parse_csv_set(extArg)) ELSE {}
    /\ ignore_dirs' = parse_csv_set(ignoreArg)
    /\ scanPc' = "ready"
    /\ UNCHANGED <<root, tree, walked, per_file, total, notScan>>

\* _count_repo_from_url, lines 68-69: the filters of the chat front end,
\* whose root is always inside a scratch directory
BotArgs ==
    /\ scanPc = "args"
    /\ IsScratchRoot(root)
    /\ extensions' = normalize_extensions(DEFAULT_EXTENSIONS)
    /\ ignore_dirs' = DEFAULT_IGNORE_DIRS
    /\ scanPc' = "ready"
    /\ UNCHANGED <<root, tree, walked, per_file, total, notScan>>

\* count_project
CountProject(order) ==
    /\ scanPc = "ready"
    /\ walked' = iter_source_files(root, tree, extensions, ignore_dirs)
    /\ order \in Orders(walked')
    /\ per_file' = SortByLoc(CountLoop(tree, order).per_file)
    /\ total' = CountLoop(tree, order).total
    /\ scanPc' = "counted"
    /\ UNCHANGED <<root, tree, extensions, ignore_dirs, notScan>>

ScanInit ==
    /\ root \in Roots
    /\ tree \in Trees
    /\ scanPc = "args"
    /\ extensions = {}
    /\ ignore_dirs = {}
    /\ walked = {}
    /\ per_file = <<>>
    /\ total = 0

ScanNext ==
    \/ \E e \in ExtArgs, g \in IgnoreArgs : CliArgs(e, g)
    \/ BotArgs
    \/ \E order \in Orders(iter_source_files(root, tree, extensions, ignore_dirs)) :
           CountProject(order)

InitScan == ScanInit /\ UrlIdle /\ OpsIdle /\ RenderIdle /\ BotIdle

SpecScan == InitScan /\ [][ScanNext]_vars

-----------------------------------------------------------------------------
(* Claims about the scan. *)

RECURSIVE SumLoc(_)
SumLoc(s) == IF s = <<>> THEN 0 ELSE Head(s)[1] + SumLoc(Tail(s))

\* the relative paths of a result list
PathsOf(s) == {s[i][2] : i \in DOMAIN s}

\* a segment of the path from the root downward is an ignored name
RelIgnored(rel, ignore) == \E part \in Range(rel) : part \in ignore

\* a line holds a character that is not white space
HasInk(line) == \E i \in DOMAIN line : ~IsSpace(line[i])

\* the number of lines of a text that hold a character that is not white space
InkLines(text) ==
    Cardinality({i \in DOMAIN SplitLines(text) : HasInk(SplitLines(text)[i])})

\* a file whose read fails or whose lines are all empty or white space
Countless(f) == ~f.readable \/ InkLines(f.text) = 0

\* C1: the total count_project returns is the sum of the counts in files, and
\* files is ordered non-increasing by count.
C1_TotalIsSumAndSorted ==
    scanPc = "counted" =>
        /\ total = SumLoc(per_file)
        /\ \A i, j \in DOMAIN per_file : i < j => per_file[i][1] >= per_file[j][1]

\* C1 happens: a result of three files with different counts among them
C1_Witness ==
    /\ scanPc = "counted"
    /\ Len(per_file) = 3
    /\ per_file[1][1] > per_file[3][1]

\* C2: ignoring is decided by the segments from the root downward alone: no
\* returned relative path has an ignored segment, and a file whose path from
\* the root downward has no ignored segment is not skipped for being ignored.
C2_IgnoreFromRootDownward ==
    scanPc = "counted" =>
        /\ \A rel \in walked : ~RelIgnored(rel, ignore_dirs)
        /\ \A rel \in DOMAIN tree :
              (~RelIgnored(rel, ignore_dirs) /\ ~ExtensionRejects(rel, extensions))
                  => rel \in walked

\* C3: with a non-empty filter a file that is not ignored is yielded exactly
\* when its suffix equals a member of the filter ignoring letter case; with an
\* empty filter every suffix passes.
C3_SuffixMatchesIgnoringCase ==
    scanPc = "counted" =>
        \A rel \in DOMAIN tree :
            ~IgnoredParts(root, rel, ignore_dirs) =>
                IF extensions # {}
                THEN rel \in walked <=>
                        \E e \in extensions :
                            Lower(e) = Lower(Suffix(rel[Len(rel)]))
                ELSE rel \in walked

\* C4: a file whose read fails, or whose lines are all empty or white space,
\* is absent from files and adds nothing to total, and the scan goes on over
\* the other files: each of them is in files with its count.
C4_UnreadableAndBlankCountZero ==
    scanPc = "counted" =>
        /\ \A rel \in walked :
              IF Countless(tree[rel])
              THEN rel \notin PathsOf(per_file)
              ELSE \E i \in DOMAIN per_file :
                      per_file[i] = <<InkLines(tree[rel].text), rel>>
        /\ Len(per_file) = Cardinality({rel \in walked : ~Countless(tree[rel])})
        /\ total = SumLoc(per_file)

\* C4 happens: the walk met a file it could not read and a file of blank
\* lines, and a third file was counted
C4_Witness ==
    /\ scanPc = "counted"
    /\ \E rel \in walked : ~tree[rel].readable
    /\ \E rel \in walked : tree[rel].readable /\ InkLines(tree[rel].text) = 0
    /\ per_file # <<>>

-----------------------------------------------------------------------------
(* count_loc.py: URLs. *)

\* the first position of s holding a character of cs, or Len(s) + 1
FirstOf(s, cs) ==
    IF \E i \in DOMAIN s : s[i] \in cs
    THEN CHOOSE i \in DOMAIN s : s[i] \in cs /\ \A j \in 1..(i - 1) : s[j] \notin cs
    ELSE Len(s) + 1

\* urllib.parse.urlparse on a URL with a scheme: the scheme up to the first
\* colon, the netloc after "//" up to the first of "/", "?" and "#", the path
\* up to the first of "?" and "#"
urlparse(text) ==
    LET colon == FirstOf(text, {":"})
        rest == SubSeq(text, colon + 1, Len(text))
        hasNetloc == StartsWith(rest, <<"/","/">>)
        afterSlashes == IF hasNetloc THEN SubSeq(rest, 3, Len(rest)) ELSE rest
        netlocEnd == IF hasNetloc THEN FirstOf(afterSlashes, {"/", "?", "#"}) ELSE 1
        tail == SubSeq(afterSlashes, netlocEnd, Len(afterSlashes))
    IN  [scheme |-> Lower(SubSeq(text, 1, colon - 1)),
         netloc |-> SubSeq(afterSlashes, 1, netlocEnd - 1),
         path   |-> SubSeq(tail, 1, FirstOf(tail, {"?", "#"}) - 1)]

\* str.strip("/")
RECURSIVE StripSlashes(_)
StripSlashes(s) ==
    IF s # <<>> /\ Head(s) = "/" THEN StripSlashes(Tail(s))
    ELSE IF s # <<>> /\ s[Len(s)] = "/" THEN StripSlashes(SubSeq(s, 1, Len(s) - 1))
    ELSE s

\* "/".join
RECURSIVE JoinSlash(_)
JoinSlash(parts) ==
    IF parts = <<>> THEN <<>>
    ELSE IF Len(parts) = 1 THEN parts[1]
    ELSE parts[1] \o <<"/">> \o JoinSlash(Tail(parts))

RECURSIVE NonEmpty(_)
NonEmpty(parts) ==
    IF parts = <<>> THEN <<>>
    ELSE IF Head(parts) = <<>> THEN NonEmpty(Tail(parts))
    ELSE <<Head(parts)>> \o NonEmpty(Tail(parts))

tGithub == <<"g","i","t","h","u","b",".","c","o","m">>
tWwwGithub == <<"w","w","w",".">> \o tGithub
tDotGit == <<".","g","i","t">>
tTree == <<"t","r","e","e">>

None == [some |-> FALSE]
Some(x) == [some |-> TRUE, val |-> x]

\* line 102: the non-empty pieces of the path
PathParts(path) == NonEmpty(Split(StripSlashes(path), "/"))

\* parse_github_repo_url: the tuple it returns, or the ValueError it raises
parse_github_repo_url(text) ==
    LET p == urlparse(text)
        parts == PathParts(p.path)
        tree3 == Len(parts) >= 4 /\ parts[3] = tTree
    IN  IF Lower(p.netloc) \notin {tGithub, tWwwGithub}
        THEN [error |-> "Supported only github.com repository links."]
        ELSE IF Len(parts) < 2
        THEN [error |-> "Invalid GitHub repository URL."]
        ELSE [error |-> "",
              owner |-> parts[1],
              repo |-> RemoveSuffix(parts[2], tDotGit),
              branch |-> IF tree3 THEN Some(parts[4]) ELSE None,
              subpath |-> IF tree3 /\ Len(parts) > 4
                          THEN Some(JoinSlash(SubSeq(parts, 5, Len(parts))))
                          ELSE None]

\* is_http_url
is_http_url(text) ==
    /\ \E i \in DOMAIN text : text[i] = ":"
    /\ urlparse(text).scheme \in {<<"h","t","t","p">>, <<"h","t","t","p","s">>}
    /\ urlparse(text).netloc # <<>>

-----------------------------------------------------------------------------
(* The URLs parse_github_repo_url is checked on. *)

UrlHosts ==
    { tGithub,
      <<"W","W","W",".","G","i","t","H","u","b",".","c","o","m">>,
      <<"g","i","t","l","a","b",".","c","o","m">>,
      <<>> }

UrlPorts == { <<>>, <<":","4","4","3">> }

\* the pieces between the slashes of a path; an empty one is a doubled slash
UrlSegments ==
    { <<"a","c","m","e">>, <<"w",".","g","i","t">>, tTree, <<>> }

UrlQueries == { <<>>, <<"?","t","a","b","=","1","#","x">> }

\* a path: a slash before every piece
RECURSIVE PathOf(_)
PathOf(segs) ==
    IF segs = <<>> THEN <<>> ELSE <<"/">> \o Head(segs) \o PathOf(Tail(segs))

UrlPaths ==
    { PathOf(segs) : segs \in UNION {[1..n -> UrlSegments] : n \in 0..MaxSegments} }

Urls ==
    { <<"h","t","t","p","s",":","/","/">> \o h \o pt \o pa \o q :
        h \in UrlHosts, pt \in UrlPorts, pa \in UrlPaths, q \in UrlQueries }

\* a call of parse_github_repo_url
ParseGithubRepoUrl ==
    /\ parsed = [error |-> "not called"]
    /\ parsed' = parse_github_repo_url(url)
    /\ UNCHANGED <<url, notUrl>>

UrlInit ==
    /\ url \in Urls
    /\ parsed = [error |-> "not called"]

UrlNext == ParseGithubRepoUrl

InitUrl == UrlInit /\ ScanIdle /\ OpsIdle /\ RenderIdle /\ BotIdle

SpecUrl == InitUrl /\ [][UrlNext]_vars

-----------------------------------------------------------------------------
(* Claims about URL parsing. *)

\* the host of a netloc: what follows the user information and precedes the port
HostOf(netloc) ==
    LET at == IF \E i \in DOMAIN netloc : netloc[i] = "@"
              THEN CHOOSE i \in DOMAIN netloc :
                       netloc[i] = "@" /\ \A j \in (i + 1)..Len(netloc) : netloc[j] # "@"
              ELSE 0
        hostport == SubSeq(netloc, at + 1, Len(netloc))
    IN  Lower(SubSeq(hostport, 1, FirstOf(hostport, {":"}) - 1))

\* C5: parse_github_repo_url fails with the unsupported-host error unless the
\* host is github.com or www.github.com in any letter case, fails with the
\* invalid-URL error when the path has fewer than two non-empty segments, and
\* otherwise returns owner = segment 1, repo = segment 2 without a trailing
\* .git, branch = segment 4 exactly when segment 3 is "tree" and segment 4
\* exists, subpath = segments 5.. joined by slashes exactly when a branch was
\* read and such segments exist.
C5_ParseGithubRepoUrl ==
    parsed.error \notin {"not called", "off"} =>
        LET u == urlparse(url)
            segs == NonEmpty(Split(u.path, "/"))
            hostOk == HostOf(u.netloc) \in {tGithub, tWwwGithub}
            hasBranch == Len(segs) >= 4 /\ segs[3] = tTree
        IN  /\ ~hostOk <=> parsed.error = "Supported only github.com repository links."
            /\ (hostOk /\ Len(segs) < 2) => parsed.error = "Invalid GitHub repository URL."
            /\ (hostOk /\ Len(segs) >= 2) =>
                  /\ parsed.error = ""
                  /\ parsed.owner = segs[1]
                  /\ parsed.repo = RemoveSuffix(segs[2], tDotGit)
                  /\ parsed.branch = IF hasBranch THEN Some(segs[4]) ELSE None
                  /\ parsed.subpath = IF hasBranch /\ Len(segs) > 4
                                      THEN Some(JoinSlash(SubSeq(segs, 5, Len(segs))))
                                      ELSE None

-----------------------------------------------------------------------------
(* Fetch and count: main of count_loc.py and _count_repo_from_url of         *)
(* tg_loc_bot.py.  Operations run side by side (several processes of the     *)
(* command, the worker threads of the bot) and share the directory in which  *)
(* scratch directories are made.                                             *)

Ops == 1..NumOps

\* the names tempfile may give a scratch directory
DirNames == 1..NumOps

tHttps == <<"h","t","t","p","s",":","/","/">>
tAcmeRepo == <<"/","a","c","m","e","/","w",".","g","i","t">>

\* a repository, a subpath of a branch of it, a host that is not GitHub, a path
\* of one segment
UrlTargets ==
    { tHttps \o tGithub \o tAcmeRepo,
      tHttps \o tGithub \o tAcmeRepo \o <<"/","t","r","e","e","/","d","/","s">>,
      tHttps \o <<"g","i","t","l","a","b",".","c","o","m">> \o tAcmeRepo,
      tHttps \o tGithub \o <<"/","a","c","m","e">> }

\* local targets: the current directory, and a path that does not exist
tHere == <<".">>
tNoSuchDir == <<"/","n","o","/","s","u","c","h">>
LocalTargets == { tHere, tNoSuchDir }

\* the local paths that exist
LocalExists(target) == target = tHere

\* what the download can end in: the archive extracted, urllib.error.URLError,
\* zipfile.BadZipFile, or an error of another class (a reset connection, a
\* full disk)
FetchResults == {"ok", "URLError", "BadZipFile", "OSError"}

\* what the walk and count can end in
CountResults == {"ok", "OSError"}

\* parse_github_repo_url and is_http_url on each target
ParsedTarget == [t \in UrlTargets |-> parse_github_repo_url(t)]
IsHttpUrl == [t \in UrlTargets \cup LocalTargets |-> is_http_url(t)]

NewOp ==
    [pc |-> "new", front |-> "none", target |-> <<>>, dir |-> 0, exc |-> "none",
     status |-> -1, out |-> {}, err |-> "none"]

\* tempfile.mkdtemp: a name no existing directory has
mkdtemp(existing) == DirNames \ existing

\* a mutant: the scratch directory is removed on the success path only
RemoveOnSuccess(scr, name, raised) ==
    IF raised THEN scr ELSE [n \in DOMAIN scr \ {name} |-> scr[n]]

\* TemporaryDirectory.__exit__: the directory is removed, raised or not
WithExit(scr, name, raised) == [n \in DOMAIN scr \ {name} |-> scr[n]]

\* main, lines 204-206: the exceptions it handles
CliHandles(exc) == exc \in {"ValueError", "URLError", "BadZipFile"}

\* how an operation ends when exc leaves its with block: main prints the error
\* and returns 1, or the exception leaves main and the interpreter prints the
\* traceback and exits with 1; _count_repo_from_url passes it to its caller.
\* The name of the scratch directory is not used after the with block.
Raised(op, exc) ==
    IF op.front = "cli"
    THEN [op EXCEPT !.pc = "done", !.exc = exc, !.status = 1, !.dir = 0,
                    !.err = IF CliHandles(exc) THEN "Error" ELSE "Traceback"]
    ELSE [op EXCEPT !.pc = "done", !.exc = exc, !.dir = 0]

\* main, lines 193-194, and _count_repo_from_url, line 70: the with block is
\* entered and the scratch directory made.  The bot hands over what URL_RE
\* matched, a text that starts with http:// or https://.
EnterWith(o, front, target) ==
    /\ ops[o].pc = "new"
    /\ front = "cli" => IsHttpUrl[target]
    /\ front = "bot" => target \in UrlTargets
    /\ \E name \in mkdtemp(DOMAIN scratch) :
          /\ scratch' = [n \in DOMAIN scratch \cup {name} |->
                            IF n = name THEN o ELSE scratch[n]]
          /\ ops' = [ops EXCEPT ![o] =
                        [@ EXCEPT !.pc = "fetch", !.front = front,
                                  !.target = target, !.dir = name]]
    /\ UNCHANGED notOps

\* download_and_extract_repo raises: the with block is left by the exception
FetchFails(o, result, found) ==
    /\ ops[o].pc = "fetch"
    /\ LET r == ParsedTarget[ops[o].target]
           exc == IF r.error # "" THEN "ValueError"
                  ELSE IF result # "ok" THEN result
                  ELSE "ValueError"
           raises == IF r.error # "" THEN TRUE
                     ELSE result # "ok" \/ (r.subpath # None /\ ~found)
       IN  /\ raises
           /\ scratch' = WithExit(scratch, ops[o].dir, TRUE)
           /\ ops' = [ops EXCEPT ![o] = Raised(@, exc)]
    /\ UNCHANGED notOps

\* download_and_extract_repo returns the root
FetchReturns(o, found) ==
    /\ ops[o].pc = "fetch"
    /\ LET r == ParsedTarget[ops[o].target]
       IN  IF r.error # "" THEN FALSE ELSE (r.subpath # None => found)
    /\ ops' = [ops EXCEPT ![o] = [@ EXCEPT !.pc = "count"]]
    /\ UNCHANGED <<scratch, notOps>>

\* count_project raises inside the with block
CountFails(o, exc) ==
    /\ ops[o].pc = "count"
    /\ exc # "ok"
    /\ scratch' = WithExit(scratch, ops[o].dir, TRUE)
    /\ ops' = [ops EXCEPT ![o] = Raised(@, exc)]
    /\ UNCHANGED notOps

\* count_project returns: main prints the two header lines, leaves the with
\* block and prints the report (lines 198-199, 208-214);
\* _count_repo_from_url leaves the with block and returns
CountReturns(o) ==
    /\ ops[o].pc = "count"
    /\ scratch' = WithExit(scratch, ops[o].dir, FALSE)
    /\ ops' = [ops EXCEPT ![o] =
                  IF @.front = "cli"
                  THEN [@ EXCEPT !.pc = "done", !.status = 0, !.dir = 0,
                                 !.out = {"Source", "Project (temp)", "Report"}]
                  ELSE [@ EXCEPT !.pc = "done", !.dir = 0]]
    /\ UNCHANGED notOps

\* main on a target that is no URL, lines 201-203 and 208-214: resolve() does
\* not test that the path exists, and rglob on a path that does not exist
\* yields nothing
CliLocal(o, target, result) ==
    /\ ops[o].pc = "new"
    /\ ~IsHttpUrl[target]
    /\ ops' = [ops EXCEPT ![o] =
                  IF result # "ok"
                  THEN Raised([@ EXCEPT !.front = "cli", !.target = target], result)
                  ELSE [@ EXCEPT !.pc = "done", !.front = "cli", !.target = target,
                                 !.status = 0, !.out = {"Project", "Report"}]]
    /\ UNCHANGED <<scratch, notOps>>

OpsInit ==
    /\ ops = [o \in Ops |-> NewOp]
    /\ scratch = <<>>

OpsNext ==
    \E o \in Ops :
        \/ \E front \in {"cli", "bot"}, target \in UrlTargets \cup LocalTargets :
               EnterWith(o, front, target)
        \/ \E result \in FetchResults, found \in BOOLEAN : FetchFails(o, result, found)
        \/ \E found \in BOOLEAN : FetchReturns(o, found)
        \/ \E exc \in CountResults : CountFails(o, exc)
        \/ CountReturns(o)
        \/ \E target \in LocalTargets, result \in CountResults :
               CliLocal(o, target, result)

InitOps == OpsInit /\ ScanIdle /\ UrlIdle /\ RenderIdle /\ BotIdle

SpecOps == InitOps /\ [][OpsNext]_vars

-----------------------------------------------------------------------------
(* Claims about fetch and count. *)

\* an operation inside its with block
InWith(o) == ops[o].pc \in {"fetch", "count"}

\* C6: the scratch directory made for a fetch and count no longer exists once
\* the operation has ended, in success or in any failure, and two operations
\* never use the same scratch directory.
C6_ScratchReclaimedAndPrivate ==
    /\ \A o \in Ops :
          ops[o].pc = "done" => \A n \in DOMAIN scratch : scratch[n] # o
    /\ \A o \in Ops :
          InWith(o) => ops[o].dir \in DOMAIN scratch /\ scratch[ops[o].dir] = o
    /\ \A a, b \in Ops :
          (a # b /\ InWith(a) /\ InWith(b)) => ops[a].dir # ops[b].dir

\* C6 happens: an operation has ended in a failure after its download while
\* another one is counting in its own scratch directory
C6_Witness ==
    \E a, b \in Ops :
        /\ a # b
        /\ ops[a].pc = "done" /\ ops[a].exc = "BadZipFile"
        /\ ops[b].pc = "count" /\ ops[b].dir \in DOMAIN scratch

\* C8: main returns 0 only when the scan succeeded and a report was printed;
\* when an error of the fetch or of the resolution of a local target (a
\* path that does not exist) occurs, it prints the error on the error stream,
\* prints no report and returns a status that is not 0.
C8_CliExitStatus ==
    \A o \in Ops :
        (ops[o].front = "cli" /\ ops[o].pc = "done") =>
            /\ ops[o].status = 0 => (ops[o].exc = "none" /\ "Report" \in ops[o].out)
            /\ (\/ ops[o].exc # "none"
                \/ ~IsHttpUrl[ops[o].target] /\ ~LocalExists(ops[o].target))
                  => /\ ops[o].status # 0
                     /\ ops[o].err # "none"
                     /\ ops[o].out = {}

-----------------------------------------------------------------------------
(* The report: _render_result of tg_loc_bot.py and lines 208-213 of main.    *)

\* Python's min
Min(a, b) == IF a < b THEN a ELSE b

\* Python's s[:n]: the first n items, and for a negative n all but the last -n
SliceTo(s, n) ==
    IF n >= 0 THEN SubSeq(s, 1, Min(n, Len(s)))
    ELSE SubSeq(s, 1, IF Len(s) + n > 0 THEN Len(s) + n ELSE 0)

\* the header "Top K" and the lines under it, one per listed file
RenderTop(per, n) ==
    [files |-> Len(per.files), total |-> per.total,
     topK |-> Min(n, Len(per.files)), listing |-> SliceTo(per.files, n)]

\* results of count_project: at most MaxListed files, ordered by count
ListedPaths == { <<"x">>, <<"y">>, <<"z">> }

IsResultList(s) ==
    /\ \A i, j \in DOMAIN s : i < j => (s[i][1] >= s[j][1] /\ s[i][2] # s[j][2])

ScanResults ==
    { [files |-> s, total |-> SumLoc(s)] :
        s \in { q \in UNION {[1..n -> (1..2) \X ListedPaths] : n \in 0..MaxListed} :
                  IsResultList(q) } }

\* --topN takes any integer (type=int)
CliTops == (0 - MaxTop)..MaxTop

\* the chat front end asks for 10 or 20 (_set_user_top, handle_callback)
BotTops == {10, 20}

\* _render_result
RenderResult(n) ==
    /\ report.by = "nobody"
    /\ topN' = n
    /\ report' = [by |-> "bot"] @@ RenderTop(shown, n)
    /\ UNCHANGED <<shown, notRender>>

\* main, lines 208-213
CliReport(n) ==
    /\ report.by = "nobody"
    /\ topN' = n
    /\ report' = [by |-> "cli"] @@ RenderTop(shown, n)
    /\ UNCHANGED <<shown, notRender>>

RenderInit ==
    /\ shown \in ScanResults
    /\ topN = 0
    /\ report = [by |-> "nobody"]

RenderNext ==
    \/ \E n \in BotTops : RenderResult(n)
    \/ \E n \in CliTops : CliReport(n)

InitRender == RenderInit /\ ScanIdle /\ UrlIdle /\ OpsIdle /\ BotIdle

SpecRender == InitRender /\ [][RenderNext]_vars

-----------------------------------------------------------------------------
(* Claims about the report. *)

\* C7: for every shown and every top N a front end accepts, the header shows
\* K = min(N, number of files) and the listing under it holds exactly K
\* lines, the first K entries of files in order.
C7_TopKListing ==
    report.by \in {"bot", "cli"} =>
        /\ report.topK = Min(topN, Len(shown.files))
        /\ Len(report.listing) = report.topK
        /\ \A i \in 1..report.topK :
              i \in DOMAIN report.listing /\ report.listing[i] = shown.files[i]

-----------------------------------------------------------------------------
(* The chat front end, tg_loc_bot.py.  The application is built without      *)
(* concurrent updates: an update is handled when the handler of the one      *)
(* before it has returned.  A handler that counts awaits the worker thread,  *)
(* which is the one point where it is suspended.  The chat service is taken  *)
(* to be reachable: a reply of fixed text is delivered, and only the result  *)
(* message can be refused for what it holds.                                 *)

Users == 1..NumUsers

\* the labels of the reply keyboard (Ukrainian in the source)
BTN_COUNT == "Count LOC"
BTN_TOP_10 == "Top 10"
BTN_TOP_20 == "Top 20"
BTN_HELP == "Help"

NoUrl == [set |-> FALSE]
Link(u) == [set |-> TRUE, url |-> u]

\* the URLs users send: a subpath of a branch of a repository, and a host
\* that is not GitHub
BotUrls ==
    { tHttps \o tGithub \o tAcmeRepo \o <<"/","t","r","e","e","/","d","/","s">>,
      tHttps \o <<"g","i","t","l","a","b",".","c","o","m">> \o tAcmeRepo }

\* text messages: the stripped text, and the URL URL_RE finds in it
Messages ==
    { [text |-> t, link |-> NoUrl] :
        t \in {"", BTN_COUNT, BTN_TOP_10, BTN_TOP_20, BTN_HELP, "hello"} }
    \cup { [text |-> "see link", link |-> Link(u)] : u \in BotUrls }

\* _extract_url
extract_url(msg) == msg.link

CallbackData == {"refresh_top_10", "refresh_top_20", "noop"}

\* _get_user_top: int(user_data.get("top", 10)); 0 stands for no "top" key
get_user_top(data) == IF data.top = 0 THEN 10 ELSE data.top

\* what _count_repo_from_url can end in for a URL: its result, or the
\* exception that leaves it
CountOutcomes(u) ==
    IF ParsedTarget[u].error # "" THEN {"ValueError"}
    ELSE {"ok", "URLError", "BadZipFile", "OSError"}
         \cup (IF ParsedTarget[u].subpath # None THEN {"ValueError"} ELSE {})

\* what sending the result message can end in: delivered, or refused by the
\* chat service (a text over the length limit), which raises in reply_text
SendOutcomes == {"sent", "BadRequest"}

\* the classes of the exceptions above all derive from Exception
ExceptionClasses == {"ValueError", "URLError", "BadZipFile", "OSError", "BadRequest"}

\* a mutant: the last except clause is missing
ReplyWithoutCatchAll(exc) ==
    IF exc = "ValueError" THEN "error"
    ELSE IF exc \in {"URLError", "BadZipFile"} THEN "download failed"
    ELSE "not caught"

\* _run_count, lines 122-127: the reply of the except clause that catches exc
ExceptReply(exc) ==
    IF exc = "ValueError" THEN "error"
    ELSE IF exc \in {"URLError", "BadZipFile"} THEN "download failed"
    ELSE IF exc \in ExceptionClasses THEN "unknown error"
    ELSE "not caught"

\* what handling an update did: every reply goes to the chat of the update
\* (update.message, update.effective_message, query.message)
Handled(replies, exc) == [replies |-> replies, exc |-> exc]

\* start
Start(u) ==
    /\ running = <<>>
    /\ user_data' = [user_data EXCEPT ![u].top = 10]
    /\ handled' = Handled(<<"welcome">>, "none")
    /\ UNCHANGED <<running, escaped, lastCounted, notBot>>

\* help_cmd
HelpCmd(u) ==
    /\ running = <<>>
    /\ handled' = Handled(<<"help">>, "none")
    /\ UNCHANGED <<user_data, running, escaped, lastCounted, notBot>>

\* _run_count up to the await of the worker thread, lines 111-115; data is
\* the user's user_data as the handler has left it
RunCountBegins(u, data, link, n, said) ==
    /\ user_data' = [user_data EXCEPT ![u] = [data EXCEPT !.last_url = Link(link)]]
    /\ running' = [user |-> u, url |-> link, top |-> n]
    /\ handled' = Handled(said \o <<"counting">>, "none")
    /\ UNCHANGED <<escaped, lastCounted, notBot>>

\* handle_message on a text that is empty, a button or without a URL
HandleMessageNoCount(u, msg) ==
    /\ running = <<>>
    /\ msg.text # ""
    /\ ~(msg.text \notin {BTN_COUNT, BTN_TOP_10, BTN_TOP_20, BTN_HELP}
             /\ extract_url(msg).set)
    /\ user_data' =
          IF msg.text = BTN_TOP_10 THEN [user_data EXCEPT ![u].top = 10]
          ELSE IF msg.text = BTN_TOP_20 THEN [user_data EXCEPT ![u].top = 20]
          ELSE user_data
    /\ handled' =
          Handled(IF msg.text = BTN_COUNT THEN <<"paste url">>
                  ELSE IF msg.text = BTN_TOP_10 THEN <<"top 10 set">>
                  ELSE IF msg.text = BTN_TOP_20 THEN <<"top 20 set">>
                  ELSE IF msg.text = BTN_HELP THEN <<"help">>
                  ELSE <<"no link found">>,
                  "none")
    /\ UNCHANGED <<running, escaped, lastCounted, notBot>>

\* handle_message on an empty text: it returns at once
HandleMessageEmpty(u, msg) ==
    /\ running = <<>>
    /\ msg.text = ""
    /\ handled' = Handled(<<>>, "none")
    /\ UNCHANGED <<user_data, running, escaped, lastCounted, notBot>>

\* handle_message on a text with a URL, up to the await in _run_count
HandleMessageUrl(u, msg) ==
    /\ running = <<>>
    /\ msg.text \notin {"", BTN_COUNT, BTN_TOP_10, BTN_TOP_20, BTN_HELP}
    /\ extract_url(msg).set
    /\ RunCountBegins(u, user_data[u], extract_url(msg).url,
                      get_user_top(user_data[u]), <<>>)

\* handle_callback without a stored URL, or with data that is no refresh
HandleCallbackNoCount(u, data) ==
    /\ running = <<>>
    /\ ~(user_data[u].last_url.set /\ data \in {"refresh_top_10", "refresh_top_20"})
    /\ handled' = Handled(IF ~user_data[u].last_url.set THEN <<"no last url">> ELSE <<>>,
                          "none")
    /\ UNCHANGED <<user_data, running, escaped, lastCounted, notBot>>

\* handle_callback on a refresh button, up to the await in _run_count
HandleCallbackRefresh(u, data) ==
    /\ running = <<>>
    /\ user_data[u].last_url.set
    /\ data \in {"refresh_top_10", "refresh_top_20"}
    /\ LET n == IF data = "refresh_top_10" THEN 10 ELSE 20
       IN  RunCountBegins(u, [user_data[u] EXCEPT !.top = n],
                          user_data[u].last_url.url, n, <<"refreshing">>)

\* _run_count from the return of the worker thread, lines 115-127: the result
\* is rendered and sent, or an except clause replies
RunCountEnds(outcome, sending) ==
    /\ running # <<>>
    /\ outcome \in CountOutcomes(running.url)
    /\ LET exc == IF outcome # "ok" THEN outcome
                  ELSE IF sending # "sent" THEN sending
                  ELSE "none"
           reply == IF exc = "none" THEN "result" ELSE ExceptReply(exc)
       IN  /\ handled' = [handled EXCEPT
                             !.exc = exc,
                             !.replies = IF reply = "not caught" THEN @
                                         ELSE Append(@, reply)]
           /\ escaped' = (escaped \/ reply = "not caught")
           /\ lastCounted' = IF outcome = "ok"
                             THEN [lastCounted EXCEPT ![running.user] = Link(running.url)]
                             ELSE lastCounted
    /\ running' = <<>>
    /\ UNCHANGED <<user_data, notBot>>

BotInit ==
    /\ user_data = [u \in Users |-> [top |-> 0, last_url |-> NoUrl]]
    /\ running = <<>>
    /\ handled = Handled(<<>>, "none")
    /\ escaped = FALSE
    /\ lastCounted = [u \in Users |-> NoUrl]

BotNext ==
    \/ \E u \in Users : Start(u)
    \/ \E u \in Users : HelpCmd(u)
    \/ \E u \in Users, msg \in Messages : HandleMessageEmpty(u, msg)
    \/ \E u \in Users, msg \in Messages : HandleMessageNoCount(u, msg)
    \/ \E u \in Users, msg \in Messages : HandleMessageUrl(u, msg)
    \/ \E u \in Users, data \in CallbackData : HandleCallbackNoCount(u, data)
    \/ \E u \in Users, data \in CallbackData : HandleCallbackRefresh(u, data)
    \/ \E outcome \in ExceptionClasses \cup {"ok"}, sending \in SendOutcomes :
           RunCountEnds(outcome, sending)

InitBot == BotInit /\ ScanIdle /\ UrlIdle /\ OpsIdle /\ RenderIdle

SpecBot == InitBot /\ [][BotNext]_vars

\* the worker thread ends its count, and the event loop resumes the handler
FairSpecBot ==
    SpecBot /\ WF_vars(\E outcome \in ExceptionClasses \cup {"ok"},
                          sending \in SendOutcomes : RunCountEnds(outcome, sending))

-----------------------------------------------------------------------------
(* Claims about the chat front end. *)

ErrorReplies == {"error", "download failed", "unknown error"}

\* a user's session is counting
Counting(u) == running # <<>> /\ running.user = u

C10_LastUrlOnlyFromSuccess ==
    running = <<>> =>
        \A u \in Users : user_data[u].last_url \in {NoUrl, lastCounted[u]}

=============================================================================
